---- MODULE Spec2Model ----
(***************************************************************************)
(* PointerSystem of X11TouchMultiWindow: connection bootstrap, the         *)
(* window -> handler registry, the event-queue drain loop and the          *)
(* process-id window walk, as a state machine.                             *)
(***************************************************************************)
EXTENDS Integers, Sequences, FiniteSets, TLC

VARIABLES
    sys,              \* lifetime of the PointerSystem object
    dtorIt,           \* ~PointerSystem: key of the last map entry visited by the loop
    mDisplay,         \* PointerSystem::mDisplay, NULL or a connection id
    mOpcode,          \* PointerSystem::mOpcode
    mPointerHandlers, \* PointerSystem::mPointerHandlers, window -> handler pointer
    handlers,         \* heap of PointerHandler objects, indexed by pointer
    conns,            \* display connections ever opened, indexed by connection id
    queue,            \* Xlib queue of already-read events of the connection
    pc,               \* position inside processEventQueue
    entryQueue,       \* the queue as it was when processEventQueue was entered
    consumed,         \* events popped by XNextEvent in the current/last call
    forwarded,        \* <<event, handler>> pairs passed to processEvent in that call
    msgs,             \* message types sent by sendMessage in the current/last call
    lastOp,           \* the operation that ran last
    lastArg,          \* its argument (window, handler pointer or connection opened)
    initIn,           \* outcomes of the native calls of the last initialize()
    xiVersion,        \* major, minor as XIQueryVersion left them in that call
    result,           \* the Result it returned
    undefined,        \* undefined behaviour the run has executed, if any
    wChildren,        \* window tree: what XQueryTree lists under each window
    wQueryOk,         \* whether XQueryTree succeeds on each window
    wProp,            \* what XGetWindowProperty(_NET_WM_PID) yields on each window
    buffers,          \* heap of Window arrays made by new Window[]
    outWindows,       \* the caller's array slot (*windows)
    outCount,         \* the caller's count slot (*numWindows)
    nullSlot          \* the last getWindowsOfProcess() got windows == NULL

vars == <<sys, dtorIt, mDisplay, mOpcode, mPointerHandlers, handlers, conns, queue,
          pc, entryQueue, consumed, forwarded, msgs, lastOp, lastArg, initIn, xiVersion,
          result, undefined, wChildren, wQueryOk, wProp, buffers, outWindows,
          outCount, nullSlot>>

walkVars == <<wChildren, wQueryOk, wProp, buffers, outWindows, outCount, nullSlot>>

sysVars == <<sys, dtorIt, mDisplay, mOpcode, mPointerHandlers, handlers, conns, queue,
             pc, entryQueue, consumed, forwarded, msgs, initIn, xiVersion>>

\* ---------------------------------------------------------------- bounds
MaxConn == 2       \* connections XOpenDisplay hands out in one run
MaxHandlers == 3   \* PointerHandler objects constructed in one run
MaxQueue == 3      \* events that arrive for one processEventQueue call
MaxBuffers == 1    \* window arrays getWindowsOfProcess allocates in one run

\* ---------------------------------------------------------------- values
NULL == 0
Windows == {1, 2}
ServerOpcodes == {131}
Extensions == {131, 140}
Statuses == {"Success", "BadRequest"}
EventTypes == {"GenericEvent", "KeyPress"}

\* int major = 2, minor = 3: the version initialize() asks XIQueryVersion for
RequestedVersion == <<2, 3>>

\* versions XIQueryVersion can leave in major, minor
Versions == {<<1, 5>>, <<2, 2>>, <<2, 3>>, <<3, 0>>}

TreeWindows == {1, 2, 3, 4}
Pids == {7, 9}

\* XGetWindowProperty: the call's status and the property data (propPID), empty
\* when the window has no such property
PropReplies ==
    {[status |-> "BadWindow", value |-> <<>>], [status |-> "Success", value |-> <<>>]}
        \cup {[status |-> "Success", value |-> <<p>>] : p \in Pids}

\* XEvent as the dispatcher reads it: e.type, e.xcookie.extension, xiEvent->event
Events == [type : EventTypes, extension : Extensions, event : Windows]

\* ---------------------------------------------------------------- helpers
OpenConns == {c \in 1..Len(conns) : conns[c] = "open"}

LiveHandlers == {h \in 1..Len(handlers) : handlers[h].live}

\* what every operation other than processEventQueue leaves in the call record
Returns(op, arg, res, m) ==
    /\ lastOp' = op
    /\ lastArg' = arg
    /\ result' = res
    /\ msgs' = m
    /\ entryQueue' = <<>>
    /\ consumed' = <<>>
    /\ forwarded' = <<>>

Callable == sys = "alive" /\ pc = "idle" /\ undefined = "none"

\* ---------------------------------------------------------------- construction
Init ==
    /\ sys = "alive"
    /\ dtorIt = 0
    /\ mDisplay = NULL
    /\ mOpcode = 0
    /\ mPointerHandlers = <<>>
    /\ handlers = <<>>
    /\ conns = <<>>
    /\ queue = <<>>
    /\ pc = "idle"
    /\ entryQueue = <<>>
    /\ consumed = <<>>
    /\ forwarded = <<>>
    /\ msgs = <<>>
    /\ lastOp = "PointerSystem"
    /\ lastArg = 0
    /\ initIn = <<>>
    /\ xiVersion = <<>>
    /\ result = "OK"
    /\ undefined = "none"
    /\ wChildren = [w \in TreeWindows |-> <<>>]
    /\ wQueryOk = [w \in TreeWindows |-> TRUE]
    /\ wProp = [w \in TreeWindows |-> [status |-> "Success", value |-> <<>>]]
    /\ buffers = <<>>
    /\ outWindows = NULL
    /\ outCount = 0
    /\ nullSlot = FALSE

\* ---------------------------------------------------------------- initialize
\* XOpenDisplay returned NULL
onOpenFailure ==
    /\ mDisplay' = NULL
    /\ UNCHANGED <<conns, mOpcode>>
    /\ result' = "ERROR_API"
    /\ msgs' = <<"ERROR">>
    /\ lastArg' = 0

\* XQueryExtension returned False on the connection c just opened
onExtensionFailure(c) ==
    /\ conns' = Append(conns, "closed")
    /\ mDisplay' = NULL
    /\ mOpcode' \in {mOpcode, 0}
    /\ result' = "ERROR_API"
    /\ msgs' = <<"ERROR">>
    /\ lastArg' = c

\* onVersionFailure without the XCloseDisplay / mDisplay = NULL pair
onVersionFailure_noRollback(c, opcode) ==
    /\ conns' = Append(conns, "open")
    /\ mDisplay' = c
    /\ mOpcode' = opcode
    /\ result' = "ERROR_API"
    /\ msgs' = <<"ERROR">>
    /\ lastArg' = c

\* XIQueryVersion returned BadRequest on the connection c just opened
onVersionFailure(c, opcode) ==
    /\ conns' = Append(conns, "closed")
    /\ mDisplay' = NULL
    /\ mOpcode' = opcode
    /\ result' = "ERROR_API"
    /\ msgs' = <<"ERROR">>
    /\ lastArg' = c

initialize(openOk, extOk, opcode, status, version) ==
    /\ UNCHANGED walkVars
    /\ Callable
    /\ lastOp' = "initialize"
    /\ initIn' = <<openOk, extOk, status>>
    /\ xiVersion' = IF openOk /\ extOk THEN version ELSE <<>>
    /\ queue' = <<>>
    /\ entryQueue' = <<>>
    /\ consumed' = <<>>
    /\ forwarded' = <<>>
    /\ UNCHANGED <<sys, dtorIt, mPointerHandlers, handlers, pc, undefined>>
    /\ IF ~openOk
         THEN onOpenFailure
         ELSE /\ Len(conns) < MaxConn
              /\ LET c == Len(conns) + 1 IN
                 IF ~extOk
                   THEN onExtensionFailure(c)
                   ELSE IF status = "BadRequest"
                     THEN onVersionFailure(c, opcode)
                     ELSE /\ conns' = Append(conns, "open")
                          /\ mDisplay' = c
                          /\ mOpcode' = opcode
                          /\ result' = "OK"
                          /\ msgs' = <<>>
                          /\ lastArg' = c

Initialize ==
    \E openOk \in BOOLEAN, extOk \in BOOLEAN, opcode \in ServerOpcodes,
       status \in Statuses, version \in Versions :
        initialize(openOk, extOk, opcode, status, version)

\* ---------------------------------------------------------------- registry
\* isDuplicate with the find() test lost
isDuplicate_never(window) == FALSE

isDuplicate(window) == window \in DOMAIN mPointerHandlers

\* std::map::insert: keeps an existing entry of the key
insert(map, window, handler) ==
    [w \in DOMAIN map \cup {window} |-> IF w \in DOMAIN map THEN map[w] ELSE handler]

\* std::map::erase of the entry found under the key, when there is one
erase(map, window) == [w \in DOMAIN map \ {window} |-> map[w]]

getHandler(window) ==
    IF window \in DOMAIN mPointerHandlers THEN mPointerHandlers[window] ELSE NULL

\* variant: a handler whose initialize() fails is deleted and not registered
createHandler_autoRemove(window, initResult) ==
    /\ UNCHANGED walkVars
    /\ Callable
    /\ initIn' = <<>>
    /\ xiVersion' = <<>>
    /\ UNCHANGED <<sys, dtorIt, mDisplay, mOpcode, conns, queue, pc, undefined>>
    /\ IF isDuplicate(window)
         THEN /\ Returns("createHandler", window, "ERROR_DUPLICATE_ITEM", <<"ERROR">>)
              /\ UNCHANGED <<mPointerHandlers, handlers>>
         ELSE /\ Len(handlers) < MaxHandlers
              /\ handlers' = Append(handlers,
                     [window |-> window, display |-> mDisplay, live |-> initResult = "OK"])
              /\ mPointerHandlers' = IF initResult = "OK"
                                       THEN insert(mPointerHandlers, window, Len(handlers) + 1)
                                       ELSE mPointerHandlers
              /\ Returns("createHandler", window, initResult, <<>>)

createHandler(window, initResult) ==
    /\ UNCHANGED walkVars
    /\ Callable
    /\ initIn' = <<>>
    /\ xiVersion' = <<>>
    /\ UNCHANGED <<sys, dtorIt, mDisplay, mOpcode, conns, queue, pc, undefined>>
    /\ IF isDuplicate(window)
         THEN /\ Returns("createHandler", window, "ERROR_DUPLICATE_ITEM", <<"ERROR">>)
              /\ UNCHANGED <<mPointerHandlers, handlers>>
         ELSE /\ Len(handlers) < MaxHandlers
              /\ handlers' = Append(handlers,
                     [window |-> window, display |-> mDisplay, live |-> TRUE])
              /\ mPointerHandlers' = insert(mPointerHandlers, window, Len(handlers) + 1)
              /\ Returns("createHandler", window, initResult, <<>>)

CreateHandler ==
    \E window \in Windows, initResult \in {"OK", "ERROR_API"} :
        createHandler(window, initResult)

\* destroyLive with the erase lost
destroyLive_noErase(handler) ==
    /\ mPointerHandlers' = mPointerHandlers
    /\ handlers' = [handlers EXCEPT ![handler].live = FALSE]
    /\ undefined' = undefined

\* destroyLive with the delete lost
destroyLive_noDelete(handler) ==
    /\ mPointerHandlers' = erase(mPointerHandlers, handlers[handler].window)
    /\ handlers' = handlers
    /\ undefined' = undefined

\* destroyHandler on a handler that is still allocated
destroyLive(handler) ==
    /\ mPointerHandlers' = erase(mPointerHandlers, handlers[handler].window)
    /\ handlers' = [handlers EXCEPT ![handler].live = FALSE]
    /\ undefined' = undefined

\* destroyHandler on a pointer whose object was deleted before: getWindow() reads
\* released memory (any window value, or one no entry is stored under), the entry
\* found under that value is erased, and the pointer is deleted a second time
destroyReleased(handler) ==
    /\ \E w \in Windows \cup {NULL} : mPointerHandlers' = erase(mPointerHandlers, w)
    /\ handlers' = handlers
    /\ undefined' = "use_after_free"

destroyHandler(handler) ==
    /\ UNCHANGED walkVars
    /\ Callable
    /\ initIn' = <<>>
    /\ xiVersion' = <<>>
    /\ UNCHANGED <<sys, dtorIt, mDisplay, mOpcode, conns, queue, pc>>
    /\ IF handlers[handler].live
         THEN destroyLive(handler)
         ELSE destroyReleased(handler)
    /\ Returns("destroyHandler", handler, "OK", <<>>)

DestroyHandler == \E handler \in 1..Len(handlers) : destroyHandler(handler)

\* ---------------------------------------------------------------- ~PointerSystem
\* PointerSystem_Destroy: delete system enters the destructor
DtorBegin ==
    /\ UNCHANGED walkVars
    /\ Callable
    /\ sys' = "dtor_loop"
    /\ dtorIt' = 0
    /\ initIn' = <<>>
    /\ xiVersion' = <<>>
    /\ Returns("~PointerSystem", 0, "OK", <<>>)
    /\ UNCHANGED <<mDisplay, mOpcode, mPointerHandlers, handlers, conns, queue, pc,
                   undefined>>

\* keys the iterator has not reached yet (std::map iterates in key order)
dtorRest == {w \in DOMAIN mPointerHandlers : w > dtorIt}

\* dtorRelease with the delete lost
dtorRelease_leak(handler) == handlers

\* delete it->second
dtorRelease(handler) == [handlers EXCEPT ![handler].live = FALSE]

\* one iteration of the cleanup loop
DtorDelete ==
    /\ UNCHANGED walkVars
    /\ sys = "dtor_loop"
    /\ dtorRest # {}
    /\ LET w == CHOOSE k \in dtorRest : \A o \in dtorRest : k <= o IN
        /\ handlers' = dtorRelease(mPointerHandlers[w])
        /\ undefined' = IF handlers[mPointerHandlers[w]].live
                          THEN undefined ELSE "use_after_free"
        /\ dtorIt' = w
    /\ UNCHANGED <<sys, mDisplay, mOpcode, mPointerHandlers, conns, queue, pc,
                   entryQueue, consumed, forwarded, msgs, lastOp, lastArg, initIn, xiVersion,
                   result>>

\* the loop ends; mPointerHandlers.clear()
DtorClear ==
    /\ UNCHANGED walkVars
    /\ sys = "dtor_loop"
    /\ dtorRest = {}
    /\ mPointerHandlers' = <<>>
    /\ sys' = "dtor_close"
    /\ UNCHANGED <<dtorIt, mDisplay, mOpcode, handlers, conns, queue, pc, entryQueue,
                   consumed, forwarded, msgs, lastOp, lastArg, initIn, xiVersion, result,
                   undefined>>

\* if (mDisplay != NULL) { XCloseDisplay(mDisplay); mDisplay = NULL; }
dtorCloses == mDisplay # NULL

DtorClose ==
    /\ UNCHANGED walkVars
    /\ sys = "dtor_close"
    /\ IF dtorCloses
         THEN /\ undefined' = IF mDisplay = NULL THEN "null_display" ELSE undefined
              /\ conns' = [c \in 1..Len(conns) |->
                              IF c = mDisplay THEN "closed" ELSE conns[c]]
              /\ mDisplay' = NULL
         ELSE UNCHANGED <<conns, mDisplay, undefined>>
    /\ queue' = <<>>
    /\ sys' = "destroyed"
    /\ UNCHANGED <<dtorIt, mOpcode, mPointerHandlers, handlers, pc, entryQueue,
                   consumed, forwarded, msgs, lastOp, lastArg, initIn, xiVersion, result>>

\* ---------------------------------------------------------------- processEventQueue
\* an event read into the connection's queue from outside (the server, or a
\* request made while an event is being handled)
Inject ==
    /\ UNCHANGED walkVars
    /\ sys = "alive"
    /\ undefined = "none"
    /\ mDisplay # NULL
    /\ Len(consumed) + Len(queue) < MaxQueue
    /\ \E e \in Events : queue' = Append(queue, e)
    /\ UNCHANGED <<sys, dtorIt, mDisplay, mOpcode, mPointerHandlers, handlers, conns,
                   pc, entryQueue, consumed, forwarded, msgs, lastOp, lastArg, initIn, xiVersion,
                   result, undefined>>

\* XEventsQueued that reports an event whatever the queue holds
XEventsQueued_always == Len(queue) + 1

\* XEventsQueued(mDisplay, QueuedAlready)
XEventsQueued == Len(queue)

\* isXInputEvent with the opcode comparison lost
isXInputEvent_anyExtension(e) == e.type = "GenericEvent"

\* the negation of the filter: e.type != GenericEvent || e.xcookie.extension != mOpcode
isXInputEvent(e) == e.type = "GenericEvent" /\ e.extension = mOpcode

\* find that yields the first entry of the map whenever the key is present
find_first(window) ==
    IF window \in DOMAIN mPointerHandlers
      THEN mPointerHandlers[CHOOSE k \in DOMAIN mPointerHandlers :
                               \A o \in DOMAIN mPointerHandlers : k <= o]
      ELSE NULL

\* mPointerHandlers.find(window), NULL standing for end()
find(window) ==
    IF window \in DOMAIN mPointerHandlers THEN mPointerHandlers[window] ELSE NULL

\* routingMiss that leaves the loop instead of continuing
routingMiss_break ==
    /\ msgs' = Append(msgs, "WARNING")
    /\ pc' = "idle"
    /\ result' = "OK"
    /\ UNCHANGED forwarded

\* no handler for the event's window: warning, continue
routingMiss ==
    /\ msgs' = Append(msgs, "WARNING")
    /\ UNCHANGED <<forwarded, pc, result>>

\* the call is entered
ProcessBegin ==
    /\ UNCHANGED walkVars
    /\ Callable
    /\ lastOp' = "processEventQueue"
    /\ lastArg' = 0
    /\ initIn' = <<>>
    /\ xiVersion' = <<>>
    /\ result' = "pending"
    /\ msgs' = <<>>
    /\ entryQueue' = queue
    /\ consumed' = <<>>
    /\ forwarded' = <<>>
    /\ IF mDisplay = NULL
         THEN undefined' = "null_display" /\ pc' = pc
         ELSE undefined' = undefined /\ pc' = "drain"
    /\ UNCHANGED <<sys, dtorIt, mDisplay, mOpcode, mPointerHandlers, handlers, conns,
                   queue>>

\* one iteration of the while loop
ProcessIter ==
    /\ UNCHANGED walkVars
    /\ pc = "drain"
    /\ XEventsQueued # 0
    /\ IF queue = <<>>
         THEN \* XNextEvent on an empty queue waits for an event to arrive
              /\ pc' = "blocked"
              /\ UNCHANGED <<queue, consumed, forwarded, msgs, result>>
         ELSE LET e == Head(queue) IN
              /\ queue' = Tail(queue)
              /\ consumed' = Append(consumed, e)
              /\ IF ~isXInputEvent(e)
                   THEN UNCHANGED <<forwarded, msgs, pc, result>>
                   ELSE IF find(e.event) = NULL
                     THEN routingMiss
                     ELSE /\ forwarded' = Append(forwarded, <<e, find(e.event)>>)
                          /\ UNCHANGED <<msgs, pc, result>>
    /\ UNCHANGED <<sys, dtorIt, mDisplay, mOpcode, mPointerHandlers, handlers, conns,
                   entryQueue, lastOp, lastArg, initIn, xiVersion, undefined>>

\* the loop condition is false: return Result::OK
ProcessReturn ==
    /\ UNCHANGED walkVars
    /\ pc = "drain"
    /\ XEventsQueued = 0
    /\ pc' = "idle"
    /\ result' = "OK"
    /\ UNCHANGED <<sys, dtorIt, mDisplay, mOpcode, mPointerHandlers, handlers, conns,
                   queue, entryQueue, consumed, forwarded, msgs, lastOp, lastArg,
                   initIn, xiVersion, undefined>>

\* ---------------------------------------------------------------- specifications
\* the lifetime of the system: bootstrap, registry, teardown
Next ==
    \/ Initialize
    \/ CreateHandler
    \/ DestroyHandler
    \/ DtorBegin
    \/ DtorDelete
    \/ DtorClear
    \/ DtorClose

Spec == Init /\ [][Next]_vars

\* the registry after initialize() and createHandler for the windows of order
registryOf(order) == [w \in {order[i] : i \in 1..Len(order)} |->
                         CHOOSE i \in 1..Len(order) : order[i] = w]

\* the dispatcher on an initialized system with any registry createHandler can build
InitDrain ==
    /\ sys = "alive"
    /\ dtorIt = 0
    /\ mDisplay = 1
    /\ mOpcode \in ServerOpcodes
    /\ conns = <<"open">>
    /\ \E order \in {<<>>} \cup {<<w>> : w \in Windows}
                      \cup {<<x[1], x[2]>> : x \in {y \in Windows \X Windows : y[1] # y[2]}} :
          /\ handlers = [i \in 1..Len(order) |->
                            [window |-> order[i], display |-> 1, live |-> TRUE]]
          /\ mPointerHandlers = registryOf(order)
    /\ queue = <<>>
    /\ pc = "idle"
    /\ entryQueue = <<>>
    /\ consumed = <<>>
    /\ forwarded = <<>>
    /\ msgs = <<>>
    /\ lastOp = "initialize"
    /\ lastArg = 1
    /\ initIn = <<TRUE, TRUE, "Success">>
    /\ xiVersion = RequestedVersion
    /\ result = "OK"
    /\ undefined = "none"
    /\ wChildren = [w \in TreeWindows |-> <<>>]
    /\ wQueryOk = [w \in TreeWindows |-> TRUE]
    /\ wProp = [w \in TreeWindows |-> [status |-> "Success", value |-> <<>>]]
    /\ buffers = <<>>
    /\ outWindows = NULL
    /\ outCount = 0
    /\ nullSlot = FALSE

NextDrain ==
    \/ Inject
    \/ ProcessBegin
    \/ ProcessIter
    \/ ProcessReturn

SpecDrain == InitDrain /\ [][NextDrain]_vars

\* the same, with the calling thread running the loop on: an enabled iteration or
\* return is eventually taken
SpecDrainFair == SpecDrain /\ WF_vars(ProcessIter) /\ WF_vars(ProcessReturn)

\* ---------------------------------------------------------------- plugin ABI
\* the caller holds a handle once PointerSystem_Create has stored it, whatever
\* initialize() returned
handleStored == lastOp # "PointerSystem"

\* new PointerSystem(...); *handle = system; return system->initialize()
PointerSystem_Create == ~handleStored /\ Initialize

PointerSystem_CreateHandler == handleStored /\ CreateHandler

PointerSystem_DestroyHandler == handleStored /\ DestroyHandler

PointerSystem_ProcessEventQueue == handleStored /\ ProcessBegin

\* delete system
PointerSystem_Destroy == handleStored /\ DtorBegin

\* a system driven through the exported functions only: one initialize(), made by
\* PointerSystem_Create, and no other
NextAbi ==
    \/ PointerSystem_Create
    \/ PointerSystem_CreateHandler
    \/ PointerSystem_DestroyHandler
    \/ PointerSystem_ProcessEventQueue
    \/ ProcessIter
    \/ ProcessReturn
    \/ Inject
    \/ PointerSystem_Destroy
    \/ DtorDelete
    \/ DtorClear
    \/ DtorClose

SpecAbi == Init /\ [][NextAbi]_vars

\* ---------------------------------------------------------------- getWindowsOfProcess
\* XDefaultRootWindow(mDisplay)
defaultRootWindow == CHOOSE r \in TreeWindows : \A w \in TreeWindows : r <= w

\* the property read of one window: the window itself when the call succeeds, the
\* data is there and its value is pid
matchWindow(window, pid) ==
    IF wProp[window].status = "Success"
      THEN IF wProp[window].value # <<>>
             THEN IF wProp[window].value[1] = pid THEN <<window>> ELSE <<>>
             ELSE <<>>
      ELSE <<>>

RECURSIVE getWindowsOfProcessRec(_, _)
RECURSIVE walkChildren(_, _, _)
RECURSIVE walkChildren_shallow(_, _, _)

\* walkChildren that tests each child without descending into it
walkChildren_shallow(childWindows, i, pid) ==
    IF i > Len(childWindows)
      THEN <<>>
      ELSE matchWindow(childWindows[i], pid)
               \o walkChildren_shallow(childWindows, i + 1, pid)

\* the for loop over childWindows, from index i on
walkChildren(childWindows, i, pid) ==
    IF i > Len(childWindows)
      THEN <<>>
      ELSE getWindowsOfProcessRec(childWindows[i], pid)
               \o walkChildren(childWindows, i + 1, pid)

\* getWindowsOfProcessRec that gives up the subtree of a window whose process-id
\* property cannot be read or is not set
getWindowsOfProcessRec_stopAtUnset(window, pid) ==
    IF wProp[window].status = "Success" /\ wProp[window].value # <<>>
      THEN matchWindow(window, pid)
               \o (IF wQueryOk[window] THEN walkChildren(wChildren[window], 1, pid)
                                        ELSE <<>>)
      ELSE <<>>

\* the private recursive overload: what it appends to the result vector
getWindowsOfProcessRec(window, pid) ==
    matchWindow(window, pid)
        \o (IF wQueryOk[window] THEN walkChildren(wChildren[window], 1, pid) ELSE <<>>)

\* variant: the count slot is cleared before the null check
getWindowsOfProcess_countFirst(pid, windowsIsNull) ==
    /\ Callable
    /\ mDisplay # NULL
    /\ lastOp' = "getWindowsOfProcess"
    /\ lastArg' = pid
    /\ nullSlot' = windowsIsNull
    /\ UNCHANGED <<sysVars, undefined, wChildren, wQueryOk, wProp>>
    /\ IF windowsIsNull
         THEN /\ result' = "ERROR_NULL_POINTER"
              /\ outCount' = 0
              /\ UNCHANGED <<buffers, outWindows>>
         ELSE /\ Len(buffers) < MaxBuffers
              /\ LET found == getWindowsOfProcessRec(defaultRootWindow, pid) IN
                  /\ outCount' = Len(found)
                  /\ buffers' = Append(buffers, [data |-> found, state |-> "allocated"])
                  /\ outWindows' = Len(buffers) + 1
              /\ result' = "OK"

getWindowsOfProcess(pid, windowsIsNull) ==
    /\ Callable
    /\ mDisplay # NULL
    /\ lastOp' = "getWindowsOfProcess"
    /\ lastArg' = pid
    /\ nullSlot' = windowsIsNull
    /\ UNCHANGED <<sysVars, undefined, wChildren, wQueryOk, wProp>>
    /\ IF windowsIsNull
         THEN /\ result' = "ERROR_NULL_POINTER"
              /\ UNCHANGED <<buffers, outWindows, outCount>>
         ELSE /\ Len(buffers) < MaxBuffers
              /\ LET found == getWindowsOfProcessRec(defaultRootWindow, pid) IN
                  /\ outCount' = Len(found)
                  /\ buffers' = Append(buffers, [data |-> found, state |-> "allocated"])
                  /\ outWindows' = Len(buffers) + 1
              /\ result' = "OK"

GetWindowsOfProcess ==
    \E pid \in Pids, windowsIsNull \in BOOLEAN : getWindowsOfProcess(pid, windowsIsNull)

freeWindowsOfProcess(windows) ==
    /\ Callable
    /\ lastOp' = "freeWindowsOfProcess"
    /\ lastArg' = windows
    /\ nullSlot' = FALSE
    /\ UNCHANGED <<sysVars, wChildren, wQueryOk, wProp, outWindows, outCount>>
    /\ IF windows = NULL
         THEN /\ result' = "ERROR_NULL_POINTER"
              /\ UNCHANGED <<buffers, undefined>>
         ELSE /\ buffers' = [buffers EXCEPT ![windows].state = "released"]
              /\ undefined' = IF buffers[windows].state = "released"
                                THEN "double_free" ELSE undefined
              /\ result' = "OK"

FreeWindowsOfProcess ==
    \E windows \in 0..Len(buffers) : freeWindowsOfProcess(windows)

\* the child lists of the tree in which parent[w] is the parent of window w
childrenOf(parent) ==
    [w \in TreeWindows |->
        LET kids == {k \in DOMAIN parent : parent[k] = w}
            RECURSIVE inOrder(_)
            inOrder(S) == IF S = {} THEN <<>>
                          ELSE LET k == CHOOSE x \in S : \A y \in S : x <= y
                               IN <<k>> \o inOrder(S \ {k})
        IN inOrder(kids)]

\* every tree over TreeWindows rooted at the default root window
Parents ==
    {parent \in [TreeWindows \ {defaultRootWindow} -> TreeWindows] :
        \A w \in DOMAIN parent : parent[w] < w}

\* the resolver on an initialized system, over any window tree and property store
InitWalk ==
    /\ sys = "alive"
    /\ dtorIt = 0
    /\ mDisplay = 1
    /\ mOpcode \in ServerOpcodes
    /\ conns = <<"open">>
    /\ handlers = <<>>
    /\ mPointerHandlers = <<>>
    /\ queue = <<>>
    /\ pc = "idle"
    /\ entryQueue = <<>>
    /\ consumed = <<>>
    /\ forwarded = <<>>
    /\ msgs = <<>>
    /\ lastOp = "initialize"
    /\ lastArg = 1
    /\ initIn = <<TRUE, TRUE, "Success">>
    /\ xiVersion = RequestedVersion
    /\ result = "OK"
    /\ undefined = "none"
    /\ \E parent \in Parents : wChildren = childrenOf(parent)
    /\ wQueryOk \in [TreeWindows -> BOOLEAN]
    /\ wProp \in [TreeWindows -> PropReplies]
    /\ buffers = <<>>
    /\ outWindows = NULL
    /\ outCount = 0
    /\ nullSlot = FALSE

NextWalk ==
    \/ GetWindowsOfProcess
    \/ FreeWindowsOfProcess

SpecWalk == InitWalk /\ [][NextWalk]_vars

\* ================================================================ claims
\* an event of the input extension, by the event's own fields
Matches(e) == e.type = "GenericEvent" /\ e.extension = mOpcode

Registered(w) == w \in DOMAIN mPointerHandlers

\* what a lookup of w in registry map yields
Lookup(map, w) == IF w \in DOMAIN map THEN map[w] ELSE NULL

CountIn(seq, P(_)) == Cardinality({i \in 1..Len(seq) : P(seq[i])})

IsMiss(e) == Matches(e) /\ ~Registered(e.event)

IsHit(e) == Matches(e) /\ Registered(e.event)

Returned == lastOp = "processEventQueue" /\ pc = "idle" /\ result = "OK"

\* every event queued at entry has been popped, in order, by the call
EntryDrained ==
    /\ Len(consumed) >= Len(entryQueue)
    /\ SubSeq(consumed, 1, Len(entryQueue)) = entryQueue

\* C1: a processEventQueue() call consumes exactly the events that were queued when
\* it was entered; events appended while it runs stay queued for the next call.
C1_BoundedDrain == Returned => consumed = entryQueue

\* C2: createHandler(W) for a window that has an entry returns ERROR_DUPLICATE_ITEM,
\* constructs no handler and leaves the registry as it was, so W keeps the one
\* entry the first call made.
C2_DuplicateRejected ==
    [][(lastOp' = "createHandler" /\ lastArg' \in DOMAIN mPointerHandlers) =>
          /\ result' = "ERROR_DUPLICATE_ITEM"
          /\ handlers' = handlers
          /\ mPointerHandlers' = mPointerHandlers
          /\ Cardinality({h \in 1..Len(handlers') :
                 handlers'[h].live /\ handlers'[h].window = lastArg'}) = 1]_vars

C2_Witness ==
    /\ lastOp = "createHandler"
    /\ result = "ERROR_DUPLICATE_ITEM"
    /\ Registered(lastArg)
    /\ handlers[mPointerHandlers[lastArg]].live

\* C3: initialize() returns ERROR_API exactly when a native step fails, and then the
\* handle is empty and the connection the call opened is closed; the next
\* initialize() whose native steps all succeed returns OK holding one open
\* connection, the only one it added.
C3_RollbackState ==
    lastOp = "initialize" =>
        /\ (result = "ERROR_API") <=> (initIn # <<TRUE, TRUE, "Success">>)
        /\ result = "ERROR_API" =>
              /\ mDisplay = NULL
              /\ lastArg # 0 => conns[lastArg] = "closed"

C3_RetryStep ==
    (/\ lastOp = "initialize" /\ result = "ERROR_API"
     /\ lastOp' = "initialize" /\ initIn' = <<TRUE, TRUE, "Success">>) =>
        /\ result' = "OK"
        /\ mDisplay' # NULL
        /\ mDisplay' \notin OpenConns
        /\ OpenConns' = OpenConns \cup {mDisplay'}

C3_BootstrapRollback == []C3_RollbackState /\ [][C3_RetryStep]_vars

C3_Witness ==
    /\ lastOp = "initialize"
    /\ result = "OK"
    /\ handlers = <<>>
    /\ conns = <<"closed", "open">>
    /\ mDisplay = 2

\* C4: an event that is not a generic event of the negotiated opcode reaches no
\* handler and produces no message when the drain loop pops it.
C4_Filtering ==
    [][(/\ pc = "drain"
        /\ Len(consumed') = Len(consumed) + 1
        /\ ~Matches(consumed'[Len(consumed')])) =>
          (forwarded' = forwarded /\ msgs' = msgs)]_vars

C4_Witness ==
    /\ Returned
    /\ Len(consumed) = 2
    /\ consumed[1].type = "GenericEvent" /\ consumed[1].extension # mOpcode
    /\ consumed[2].type # "GenericEvent" /\ consumed[2].extension = mOpcode
    /\ Registered(consumed[1].event) /\ Registered(consumed[2].event)
    /\ forwarded = <<>>
    /\ msgs = <<>>

\* C5: each extension event for a window without an entry gives exactly one WARNING
\* and no handler call, and the call still pops every event queued at entry and
\* returns OK.
C5_RoutingMiss ==
    lastOp = "processEventQueue" =>
        /\ \A i \in 1..Len(msgs) : msgs[i] = "WARNING"
        /\ Len(msgs) = CountIn(consumed, IsMiss)
        /\ \A i \in 1..Len(forwarded) : Registered(forwarded[i][1].event)
        /\ pc = "idle" => (result = "OK" /\ EntryDrained)

C5_Witness ==
    /\ Returned
    /\ Len(entryQueue) = 3
    /\ IsMiss(consumed[1])
    /\ IsHit(consumed[2])
    /\ IsMiss(consumed[3])
    /\ Len(msgs) = 2
    /\ Len(forwarded) = 1

\* C6: the handler calls of a processEventQueue() call are exactly the extension
\* events for registered windows, in queue order, each given once to the handler
\* stored under its window, and none of the events queued at entry is skipped.
RECURSIVE Routed(_)
Routed(seq) ==
    IF seq = <<>> THEN <<>>
    ELSE IF IsHit(Head(seq))
      THEN <<<<Head(seq), mPointerHandlers[Head(seq).event]>>>> \o Routed(Tail(seq))
      ELSE Routed(Tail(seq))

C6_NoDropNoMisroute ==
    lastOp = "processEventQueue" =>
        /\ forwarded = Routed(consumed)
        /\ \A i \in 1..Len(forwarded) :
              /\ handlers[forwarded[i][2]].live
              /\ handlers[forwarded[i][2]].window = forwarded[i][1].event
        /\ pc = "idle" => EntryDrained

C6_Witness ==
    /\ Returned
    /\ Len(entryQueue) = 3
    /\ Len(forwarded) = 3
    /\ forwarded[1][2] # forwarded[2][2]
    /\ forwarded[3][2] = forwarded[1][2]

\* C7: destroyHandler(H) of the handler registered for W leaves no entry for W and
\* every other entry as it was, and a createHandler(W) that follows is accepted.
C7_DestroyStep ==
    (/\ lastOp' = "destroyHandler"
     /\ handlers[lastArg'].live
     /\ Registered(handlers[lastArg'].window)
     /\ mPointerHandlers[handlers[lastArg'].window] = lastArg') =>
        /\ result' = "OK"
        /\ Lookup(mPointerHandlers', handlers[lastArg'].window) = NULL
        /\ DOMAIN mPointerHandlers' = DOMAIN mPointerHandlers \ {handlers[lastArg'].window}
        /\ \A w \in DOMAIN mPointerHandlers' : mPointerHandlers'[w] = mPointerHandlers[w]

C7_RecreateStep ==
    (/\ lastOp = "destroyHandler" /\ undefined = "none"
     /\ lastOp' = "createHandler" /\ lastArg' = handlers[lastArg].window) =>
        /\ result' # "ERROR_DUPLICATE_ITEM"
        /\ Lookup(mPointerHandlers', lastArg') = Len(handlers')
        /\ Len(handlers') = Len(handlers) + 1

C7_LookupAfterTeardown == [][C7_DestroyStep /\ C7_RecreateStep]_vars

C7_Witness ==
    /\ lastOp = "createHandler"
    /\ Len(handlers) = 3
    /\ ~handlers[2].live
    /\ handlers[1].live /\ handlers[1].window # handlers[2].window
    /\ handlers[3].live /\ handlers[3].window = handlers[2].window
    /\ getHandler(handlers[3].window) = 3
    /\ getHandler(handlers[1].window) = 1

\* C8: no destroyHandler call reads or deletes a handler that was released before,
\* and none leaves a live handler without its registry entry.
C8_RepeatedDestroySafe ==
    lastOp = "destroyHandler" =>
        /\ undefined = "none"
        /\ \A h \in LiveHandlers : getHandler(handlers[h].window) = h

\* C9: in teardown the registry is empty and every handler released before the
\* connection is closed, the close happens only on an open connection, and no live
\* handler refers to a closed connection.
C9_TeardownOrder ==
    sys # "alive" =>
        /\ \A h \in LiveHandlers :
              handlers[h].display # NULL => conns[handlers[h].display] = "open"
        /\ sys \in {"dtor_close", "destroyed"} =>
              (mPointerHandlers = <<>> /\ LiveHandlers = {})
        /\ sys # "destroyed" => (mDisplay = NULL \/ conns[mDisplay] = "open")
        /\ sys = "destroyed" => (mDisplay = NULL /\ undefined = "none")

C9_Witness ==
    /\ sys = "destroyed"
    /\ dtorIt = 2
    /\ Len(handlers) >= 2
    /\ \A h \in 1..Len(handlers) :
          handlers[h].display # NULL /\ conns[handlers[h].display] = "closed"

\* windows reachable from the root through the child lists
RECURSIVE TreeClosure(_)
TreeClosure(S) ==
    LET T == S \cup UNION {{wChildren[w][i] : i \in 1..Len(wChildren[w])} : w \in S}
    IN IF T = S THEN S ELSE TreeClosure(T)

HasPid(w, pid) == wProp[w].status = "Success" /\ wProp[w].value = <<pid>>

\* C10: when every child query succeeds, getWindowsOfProcess(pid) with an output
\* slot returns OK, the array holds each window of the tree whose process-id
\* property is pid exactly once and nothing else, and the count is its length.
C10_ProcessResolution ==
    (/\ lastOp = "getWindowsOfProcess"
     /\ result # "ERROR_NULL_POINTER"
     /\ \A w \in TreeWindows : wQueryOk[w]) =>
        /\ result = "OK"
        /\ outWindows \in 1..Len(buffers)
        /\ LET data == buffers[outWindows].data IN
            /\ {data[i] : i \in 1..Len(data)} =
                   {w \in TreeClosure({defaultRootWindow}) : HasPid(w, lastArg)}
            /\ \A i, j \in 1..Len(data) : data[i] = data[j] => i = j
            /\ outCount = Len(data)

C10_Witness ==
    /\ lastOp = "getWindowsOfProcess"
    /\ result = "OK"
    /\ lastArg = 7
    /\ \A w \in TreeWindows : wQueryOk[w]
    /\ wChildren = (1 :> <<2, 3>> @@ 2 :> <<>> @@ 3 :> <<4>> @@ 4 :> <<>>)
    /\ HasPid(2, 7) /\ HasPid(3, 9) /\ HasPid(4, 7)
    /\ wProp[1].value = <<>>
    /\ buffers[outWindows].data = <<2, 4>>
    /\ outCount = 2

\* C11: freeWindowsOfProcess(NULL) returns ERROR_NULL_POINTER and releases nothing,
\* and no freeWindowsOfProcess call releases an array that was released before:
\* such a call does not return OK.
C11_ReleaseRejection ==
    lastOp = "freeWindowsOfProcess" =>
        /\ lastArg = NULL => result = "ERROR_NULL_POINTER"
        /\ undefined # "double_free"
        /\ \A b \in 1..Len(buffers) :
              (lastArg = b /\ result = "OK") => undefined = "none"

\* version v is at least the minimum the error message of initialize() names
AtLeastRequested(v) ==
    \/ v[1] > RequestedVersion[1]
    \/ v[1] = RequestedVersion[1] /\ v[2] >= RequestedVersion[2]

\* C12: initialize() returns OK only when the version XIQueryVersion reported is at
\* least 2.3; for a lower reported version it sends an error, leaves no connection
\* and returns ERROR_API.
C12_MinimumVersion ==
    (lastOp = "initialize" /\ xiVersion # <<>> /\ ~AtLeastRequested(xiVersion)) =>
        /\ result = "ERROR_API"
        /\ msgs = <<"ERROR">>
        /\ mDisplay = NULL

\* C13: every connection initialize() opened is closed exactly once: while the system
\* lives the only open connection is the one mDisplay holds, so a second initialize()
\* abandons none, and after the destructor no connection is open.
C13_ConnectionLifecycle ==
    /\ sys = "alive" => OpenConns \subseteq {mDisplay}
    /\ sys = "destroyed" => OpenConns = {}

\* C14: getWindowsOfProcess with a null array slot returns ERROR_NULL_POINTER,
\* allocates nothing and writes neither the array slot nor the count; with a
\* non-null slot it returns OK and the slot holds a buffer allocated by this call,
\* whose length is the count, also when the buffer is empty.
C14_Outcome ==
    lastOp = "getWindowsOfProcess" =>
        IF nullSlot
          THEN result = "ERROR_NULL_POINTER"
          ELSE /\ result = "OK"
               /\ outWindows = Len(buffers)
               /\ outWindows # NULL
               /\ buffers[outWindows].state = "allocated"
               /\ outCount = Len(buffers[outWindows].data)

C14_CallStep ==
    lastOp' = "getWindowsOfProcess" =>
        IF nullSlot'
          THEN UNCHANGED <<buffers, outWindows, outCount>>
          ELSE /\ Len(buffers') = Len(buffers) + 1
               /\ SubSeq(buffers', 1, Len(buffers)) = buffers

C14_NullOutputSlot == []C14_Outcome /\ [][C14_CallStep]_vars

C14_Witness ==
    /\ lastOp = "getWindowsOfProcess"
    /\ nullSlot
    /\ result = "ERROR_NULL_POINTER"
    /\ Len(buffers) = 1
    /\ outWindows = 1
    /\ outCount = 2
    /\ buffers[1].state = "allocated"

\* C15: when createHandler(W) finds no entry and the new handler's initialize()
\* fails, the call returns that failure and the new handler is registered for W and
\* live; a createHandler(W) that follows is rejected as a duplicate and constructs
\* nothing; and while the system lives an entry leaves the registry, or changes,
\* only in a destroyHandler call.
C15_EntryKept ==
    (lastOp = "createHandler" /\ result = "ERROR_API") =>
        /\ handlers # <<>>
        /\ Lookup(mPointerHandlers, lastArg) = Len(handlers)
        /\ handlers[Len(handlers)].live
        /\ handlers[Len(handlers)].window = lastArg

C15_SecondCreateStep ==
    (/\ lastOp = "createHandler" /\ result = "ERROR_API"
     /\ lastOp' = "createHandler" /\ lastArg' = lastArg) =>
        /\ result' = "ERROR_DUPLICATE_ITEM"
        /\ handlers' = handlers
        /\ mPointerHandlers' = mPointerHandlers

C15_RemovalStep ==
    \A w \in DOMAIN mPointerHandlers :
        (sys' = "alive" /\ Lookup(mPointerHandlers', w) # mPointerHandlers[w]) =>
            lastOp' = "destroyHandler"

C15_FailedInitKeepsEntry ==
    []C15_EntryKept /\ [][C15_SecondCreateStep /\ C15_RemovalStep]_vars

C15_Witness ==
    /\ lastOp = "createHandler"
    /\ result = "ERROR_API"
    /\ Len(handlers) = 2
    /\ handlers[1].live /\ handlers[1].window # lastArg
    /\ Lookup(mPointerHandlers, lastArg) = 2
    /\ handlers[2].live

\* C16: processEventQueue() never waits inside XNextEvent: an event is popped only
\* when the queue is not empty at that moment; on an empty queue the call can only
\* return, and returns OK with nothing popped; a call during which no event arrives
\* pops exactly the events queued at entry; and every call returns.
C16_NoWait ==
    /\ pc # "blocked"
    /\ (pc = "drain" /\ queue = <<>>) => (ENABLED ProcessReturn /\ ~ENABLED ProcessIter)
    /\ (Returned /\ Len(consumed) + Len(queue) = Len(entryQueue)) =>
           (consumed = entryQueue /\ queue = <<>>)

C16_PopStep ==
    Len(consumed') > Len(consumed) =>
        /\ pc = "drain"
        /\ queue # <<>>
        /\ consumed' = Append(consumed, Head(queue))
        /\ queue' = Tail(queue)

C16_NonBlockingDrain ==
    /\ []C16_NoWait
    /\ [][C16_PopStep]_vars
    /\ (pc = "drain") ~> Returned

C16_Witness ==
    /\ Returned
    /\ entryQueue = <<>>
    /\ consumed = <<>>
    /\ queue = <<>>

\* windows the walk visits: the root, and the children of each visited window
\* whose child query succeeds
RECURSIVE VisitClosure(_)
VisitClosure(S) ==
    LET T == S \cup UNION {{wChildren[w][i] : i \in 1..Len(wChildren[w])} :
                              w \in {v \in S : wQueryOk[v]}}
    IN IF T = S THEN S ELSE VisitClosure(T)

\* C17: whatever property reads and child queries fail, getWindowsOfProcess with an
\* output slot returns OK and reports exactly the visited windows whose process-id
\* property is pid, once each: a window without a readable property is skipped but
\* its children are visited when its child query succeeds, and a window whose
\* child query fails hides only its own descendants.
C17_FailSoftWalk ==
    (lastOp = "getWindowsOfProcess" /\ ~nullSlot) =>
        /\ result = "OK"
        /\ outWindows \in 1..Len(buffers)
        /\ LET data == buffers[outWindows].data IN
            /\ {data[i] : i \in 1..Len(data)} =
                   {w \in VisitClosure({defaultRootWindow}) : HasPid(w, lastArg)}
            /\ \A i, j \in 1..Len(data) : data[i] = data[j] => i = j

C17_Witness ==
    /\ lastOp = "getWindowsOfProcess"
    /\ ~nullSlot
    /\ result = "OK"
    /\ lastArg = 7
    /\ wChildren = (1 :> <<2, 3>> @@ 2 :> <<4>> @@ 3 :> <<>> @@ 4 :> <<>>)
    /\ wProp[1].value = <<>>
    /\ wQueryOk[1] /\ ~wQueryOk[2]
    /\ HasPid(2, 7) /\ HasPid(3, 7) /\ HasPid(4, 7)
    /\ buffers[outWindows].data = <<2, 3>>

\* C18: while the system lives and no handler was destroyed twice, the registry has
\* one entry per window at most (it is a function of the window), the entry under W
\* is a live handler constructed for W, and every live handler is the entry of its
\* window.
C18_RegistryOwnership ==
    (sys = "alive" /\ undefined = "none") =>
        /\ DOMAIN mPointerHandlers \subseteq Windows
        /\ \A w \in DOMAIN mPointerHandlers :
              /\ mPointerHandlers[w] \in 1..Len(handlers)
              /\ handlers[mPointerHandlers[w]].live
              /\ handlers[mPointerHandlers[w]].window = w
        /\ \A h \in LiveHandlers : Lookup(mPointerHandlers, handlers[h].window) = h

C18_Witness ==
    /\ sys = "alive" /\ undefined = "none"
    /\ lastOp = "createHandler"
    /\ Len(handlers) = 3
    /\ ~handlers[1].live
    /\ handlers[2].live /\ handlers[3].live
    /\ handlers[3].window = handlers[1].window
    /\ Lookup(mPointerHandlers, handlers[2].window) = 2
    /\ Lookup(mPointerHandlers, handlers[3].window) = 3

\* C19: in every state reached through the exported functions, each live handler
\* was constructed with a connection that is open, and no call has read the event
\* queue of an empty connection.
C19_HandlersOnOpenConnection ==
    /\ \A h \in LiveHandlers : handlers[h].display \in OpenConns
    /\ undefined # "null_display"
====
